---------------------------- MODULE Spec2Model ----------------------------
(***************************************************************************)
(* A model of simple_sandbox: the sandbox registry and reaper              *)
(* (core.py, server.py), the kernel session's execute pump (core.py) and   *)
(* the filesystem gateway (core.py, server.py).                            *)
(*                                                                         *)
(* Ten specifications share the module:                                  *)
(*   Spec        the registry: create, close, expiry timer, periodic       *)
(*               sweep;                                                    *)
(*   SpecExec    one Sandbox object: execute_code, the shell channel and   *)
(*               the publish channel;                                      *)
(*   SpecFs      the gateway: get_file_path, download_file, upload_file;   *)
(*   SpecInstall install_package on each outcome of the installer;         *)
(*   SpecCreate  create_new_sandbox on each outcome of the provisioning    *)
(*               of venv_dir;                                              *)
(*   SpecOps     the request handlers of two registered sandboxes next to  *)
(*               the background closes;                                    *)
(*   SpecList    list_sandboxes next to the background closes;             *)
(*   SpecTime    the clock: expiry timers, the sweep, a handler that keeps *)
(*               the event loop, and the exit of run_server_async;         *)
(*   SpecSession the Sandbox object's shutdown called directly;            *)
(*   SpecSweep   periodic_cleanup over expired sandboxes next to the       *)
(*               background closes, with the fairness of the event loop.   *)
(***************************************************************************)
EXTENDS Integers, Sequences, FiniteSets, TLC

VARIABLES
    \* ---- registry and reaper (Spec) ----
    sandboxes,   \* core.sandboxes: id -> {sandbox, created_at, venv_dir}
    minted,      \* how many ids uuid4 has produced
    kernel,      \* per id, the kernel session: none, starting, ready, closed, dead
    work,        \* per id, whether work_dir exists on disk
    venv,        \* per id, whether venv_dir exists on disk
    timer,       \* per id, the auto_close_sandbox task: state and wake-up time
    sweepDue,    \* when periodic_cleanup wakes next
    now,         \* the event loop's clock, in seconds
    ticks,       \* how often the clock has advanced
    loopTask,    \* what the event-loop thread is in the middle of
    worker,      \* the threadpool: per thread, the background close it runs
    shutdowns,   \* per id, how often Sandbox.shutdown was invoked
    returned,    \* ids create_new_sandbox returned to its caller
    removed,     \* ids deleted from the registry
    closeAck,    \* ids for which close_sandbox answered "success"
    errors,      \* <<task kind, id>> of the tasks that ended in a KeyError
    \* ---- one Sandbox object (SpecExec) ----
    last_execute_id, \* Sandbox.last_execute_id
    next_msg,    \* the message ids kernel_client.execute has handed out
    iopub,       \* the publish channel: messages the client has not read yet
    emitted,     \* how many messages the kernel has published
    call,        \* the execute_code call in progress, or the last one
    records,     \* the records execute_code returned to clients, in call order
    clientSeq,   \* last_execute_id as each client call left it, in call order
    discarded,   \* parents of the messages the current call skipped
    shell,       \* the shell channel: execute requests the kernel has not taken yet
    namespace,   \* the requests the kernel has executed, in order: the interpreter state
    \* ---- filesystem gateway (SpecFs) ----
    fsIn,        \* the request: file_path, the multipart filename and the bytes sent
    links,       \* symbolic links on disk: canonical path -> target
    files,       \* regular files on disk, by canonical path
    dirs,        \* directories on disk, by canonical path
    content,     \* the bytes of each regular file on disk
    fsOut,       \* what the last gateway operation returned
    \* ---- request handlers and the service (SpecOps, SpecTime) ----
    arrivals,    \* how many requests have arrived
    pending,     \* requests that arrived and whose handler has not started
    running,     \* requests whose handler has started and not answered
    reply,       \* the answer of the handler that finished last
    stopped,     \* run_server_async has left its finally clause
    \* ---- package installation (SpecInstall) ----
    instIn,      \* the package to install and what the installer process will do
    instOut,     \* what the last install_package call returned
    \* ---- provisioning of venv_dir (SpecCreate) ----
    provIn,      \* the base image on disk and what cp, copytree, uv and Sandbox() will do
    provOut      \* what the last create_new_sandbox call did

fsVars == <<fsIn, links, files, dirs, content, fsOut>>

lifeVars == <<sandboxes, minted, kernel, work, venv, timer, sweepDue, now, ticks,
              loopTask, worker, shutdowns, returned, removed, closeAck, errors>>

execVars == <<last_execute_id, next_msg, iopub, emitted, call, records, clientSeq,
              discarded, shell, namespace>>

svcVars == <<arrivals, pending, running, reply, stopped>>

instVars == <<instIn, instOut>>

provVars == <<provIn, provOut>>

vars == <<lifeVars, execVars, fsVars, svcVars, instVars, provVars>>

(***************************************************************************)
(* Strings are sequences of one-character strings, so that str.startswith  *)
(* and posixpath's normalisation are computed character by character.      *)
(***************************************************************************)
Slash == "/"
Dot == "."
DotDot == <<".", ".">>

\* The characters request paths are drawn from, and their longest length.
PathChars == {"/", ".", "w", "e"}
MaxPathLen == 6

RECURSIVE StringsUpTo(_)
StringsUpTo(n) ==
    IF n = 0 THEN {<<>>}
    ELSE LET shorter == StringsUpTo(n - 1)
         IN  shorter \cup {Append(s, c) : s \in {t \in shorter : Len(t) = n - 1}, c \in PathChars}

PathInputs == StringsUpTo(MaxPathLen)

\* tempfile.mkdtemp(prefix="sandbox_<id>_"): an absolute directory under the
\* temporary root "/t".
work_dir == <<"/", "t", "/", "w">>

\* str.startswith
startswith(s, prefix) ==
    /\ Len(prefix) <= Len(s)
    /\ SubSeq(s, 1, Len(prefix)) = prefix

RECURSIVE SplitAcc(_, _, _)
SplitAcc(s, cur, acc) ==
    IF s = <<>> THEN Append(acc, cur)
    ELSE IF Head(s) = Slash THEN SplitAcc(Tail(s), <<>>, Append(acc, cur))
    ELSE SplitAcc(Tail(s), Append(cur, Head(s)), acc)

\* str.split('/')
split(s) == SplitAcc(s, <<>>, <<>>)

RECURSIVE JoinComps(_)
\* '/'.join(comps)
JoinComps(comps) ==
    IF comps = <<>> THEN <<>>
    ELSE IF Len(comps) = 1 THEN comps[1]
    ELSE comps[1] \o <<Slash>> \o JoinComps(Tail(comps))

\* posixpath.join(a, b): an absolute b replaces a.
join(a, b) ==
    IF startswith(b, <<Slash>>) THEN b
    ELSE IF a = <<>> \/ a[Len(a)] = Slash THEN a \o b
    ELSE a \o <<Slash>> \o b

RECURSIVE NormComps(_, _, _)
\* The loop of posixpath.normpath over the components.
NormComps(comps, new_comps, initial_slashes) ==
    IF comps = <<>> THEN new_comps
    ELSE LET comp == Head(comps)
             n == Len(new_comps)
         IN  IF comp = <<>> \/ comp = <<Dot>>
                 THEN NormComps(Tail(comps), new_comps, initial_slashes)
             ELSE IF \/ comp # DotDot
                     \/ (initial_slashes = 0 /\ n = 0)
                     \/ (n > 0 /\ new_comps[n] = DotDot)
                 THEN NormComps(Tail(comps), Append(new_comps, comp), initial_slashes)
             ELSE IF n > 0
                 THEN NormComps(Tail(comps), SubSeq(new_comps, 1, n - 1), initial_slashes)
             ELSE NormComps(Tail(comps), new_comps, initial_slashes)

\* posixpath.normpath
normpath(path) ==
    IF path = <<>> THEN <<Dot>>
    ELSE LET initial_slashes ==
                 IF ~startswith(path, <<Slash>>) THEN 0
                 ELSE IF startswith(path, <<Slash, Slash>>)
                         /\ ~startswith(path, <<Slash, Slash, Slash>>) THEN 2
                 ELSE 1
             body == JoinComps(NormComps(split(path), <<>>, initial_slashes))
             res == [i \in 1..initial_slashes |-> Slash] \o body
         IN  IF res = <<>> THEN <<Dot>> ELSE res

\* posixpath.abspath of a path that is already absolute (work_dir is).
abspath(path) == normpath(path)

\* posixpath.dirname
dirname(path) ==
    LET idx == {i \in 1..Len(path) : path[i] = Slash}
        last == IF idx = {} THEN 0 ELSE CHOOSE i \in idx : \A j \in idx : j <= i
        head == SubSeq(path, 1, last)
    IN  IF head # <<>> /\ \E i \in 1..Len(head) : head[i] # Slash
            THEN LET keep == CHOOSE k \in 1..Len(head) :
                                 /\ head[k] # Slash
                                 /\ \A j \in (k + 1)..Len(head) : head[j] = Slash
                 IN  SubSeq(head, 1, keep)
        ELSE head


(***************************************************************************)
(* The disk the gateway works on.  Canonical paths are absolute, with no   *)
(* '.', '..', empty component or symbolic link in them.                    *)
(***************************************************************************)
TmpRoot == <<"/", "t">>
OutsideFile == <<"/", "e">>                        \* a file outside the temporary root
SiblingFile == work_dir \o <<"e">>                 \* /t/we: work_dir is a string prefix of it
InsideFile == work_dir \o <<"/", "w">>             \* /t/w/w
LinkPath == work_dir \o <<"/", "e">>               \* /t/w/e, a symbolic link when present
other_work_dir == TmpRoot \o <<"/", "e">>          \* /t/e: the work_dir of another sandbox
InitFiles == {OutsideFile, SiblingFile, InsideFile}
InitDirs == {<<Slash>>, TmpRoot, work_dir, other_work_dir}
\* What executed code may have left in work_dir: no link, a link to a file
\* outside, or a link to the root directory (os.symlink('/', 'e')).
InitLinks == {{}, {<<LinkPath, OutsideFile>>}, {<<LinkPath, <<Slash>>>>}}
OldBytes == <<"o">>                                \* what the files on disk hold at first
Bytes == {<<>>, <<"b">>}                           \* the bodies an upload sends
DefaultFilename == <<"w">>
FileNames == {DefaultFilename, <<".", ".", "/", "e">>, <<"/", "e">>}

\* Canonical containment: p is root itself or lies below it.
IsWithin(p, root) == p = root \/ startswith(p, root \o <<Slash>>)

ToPath(comps) == <<Slash>> \o JoinComps(comps)

RECURSIVE Resolve(_, _, _)
\* What the kernel's path walk does: '..' is taken on the resolved prefix and
\* a symbolic link is replaced by its (canonical) target.
Resolve(comps, cur, lk) ==
    IF comps = <<>> THEN cur
    ELSE LET comp == Head(comps)
         IN  IF comp = <<>> \/ comp = <<Dot>> THEN Resolve(Tail(comps), cur, lk)
             ELSE IF comp = DotDot
                 THEN Resolve(Tail(comps),
                              IF cur = <<>> THEN cur ELSE SubSeq(cur, 1, Len(cur) - 1), lk)
             ELSE LET cand == Append(cur, comp)
                  IN  IF \E l \in lk : l[1] = ToPath(cand)
                          THEN LET hit == CHOOSE l \in lk : l[1] = ToPath(cand)
                               IN  Resolve(Tail(comps), Resolve(split(hit[2]), <<>>, {}), lk)
                      ELSE Resolve(Tail(comps), cand, lk)

\* The canonical, symlink-resolved location the operating system reaches for
\* an absolute path.
realpath(path, lk) == ToPath(Resolve(split(path), <<>>, lk))

NoResult == [op |-> "none", status |-> 0, path |-> <<>>, real |-> <<>>]

\* Sandbox.get_file_path: the path, or 403.
get_file_path(file_path) ==
    LET full_path == abspath(join(work_dir, file_path))
    IN  IF ~startswith(full_path, abspath(work_dir))
            THEN [status |-> 403, path |-> <<>>]
        ELSE [status |-> 200, path |-> full_path]

\* os.path.exists follows symbolic links.
exists(path) == realpath(path, links) \in files \cup dirs

\* The lexical prefixes of a path at component boundaries, as os.makedirs
\* walks them.
Prefixes(path) ==
    {SubSeq(path, 1, i) : i \in {j \in 1..Len(path) :
        /\ path[j] # Slash
        /\ (j = Len(path) \/ path[j + 1] = Slash)}}

\* Sandbox.get_file_path applied to a request.
GetFilePath ==
    /\ fsOut.op = "none"
    /\ LET r == get_file_path(fsIn.file_path)
       IN  fsOut' = [op |-> "resolve", status |-> r.status, path |-> r.path,
                     real |-> IF r.status = 200 THEN realpath(r.path, links) ELSE <<>>]
    /\ UNCHANGED <<fsIn, links, files, dirs, content>>
    /\ UNCHANGED <<lifeVars, execVars, svcVars, instVars, provVars>>

\* server.download_file for a registered sandbox, as the first request or
\* after an upload: 403, 404, 500 or the bytes (body) of the regular file the
\* path leads to (real).  after tells whether it follows an upload that was
\* answered 200.
download_file ==
    /\ fsOut.op \in {"none", "upload"}
    /\ LET r == get_file_path(fsIn.file_path)
           real == realpath(r.path, links)
           after == fsOut.op = "upload" /\ fsOut.status = 200
           Failed(status, path) ==
               [op |-> "download", status |-> status, path |-> path, real |-> <<>>,
                body |-> <<>>, after |-> after]
       IN  fsOut' =
             IF r.status = 403 THEN Failed(403, <<>>)
             ELSE IF ~exists(r.path) THEN Failed(404, r.path)
             ELSE IF real \in dirs THEN Failed(500, r.path)
             ELSE [op |-> "download", status |-> 200, path |-> r.path, real |-> real,
                   body |-> content[real], after |-> after]
    /\ UNCHANGED <<fsIn, links, files, dirs, content>>
    /\ UNCHANGED <<lifeVars, execVars, svcVars, instVars, provVars>>

\* Sandbox.upload_file behind server.upload_file for a registered sandbox:
\* os.makedirs of the parent, then open(save_path, "wb"), which fails on a
\* directory and on a path that ends in a slash, then the copy of the bytes.
upload_file ==
    /\ fsOut.op = "none"
    /\ LET name == IF fsIn.file_path # <<>> THEN fsIn.file_path ELSE fsIn.filename
           save_path == join(work_dir, name)
           pre == Prefixes(dirname(save_path))
           blocked == {p \in pre : realpath(p, links) \in files}
           made == {realpath(p, links) : p \in
                       {q \in pre : \A b \in blocked : Len(q) < Len(b)}}
           target == realpath(save_path, links)
           ok == /\ blocked = {}
                 /\ target \notin dirs \cup made
                 /\ save_path[Len(save_path)] # Slash
       IN  /\ dirs' = dirs \cup made
           /\ files' = IF ok THEN files \cup {target} ELSE files
           /\ content' = IF ok THEN [f \in files \cup {target} |->
                                       IF f = target THEN fsIn.bytes ELSE content[f]]
                         ELSE content
           /\ fsOut' = IF ok
                         THEN [op |-> "upload", status |-> 200, path |-> save_path, real |-> target]
                         ELSE [op |-> "upload", status |-> 500, path |-> <<>>, real |-> <<>>]
    /\ UNCHANGED <<fsIn, links>>
    /\ UNCHANGED <<lifeVars, execVars, svcVars, instVars, provVars>>

(***************************************************************************)
(* The registry and the reaper.                                            *)
(*                                                                         *)
(* Every request handler is an async def that never awaits while it works  *)
(* on the registry, so the handlers, the expiry timers and the sweep run   *)
(* one at a time on the event-loop thread (loopTask).  The background task *)
(* of close_sandbox is a plain function: Starlette runs it on a threadpool *)
(* thread (worker) after the response was sent, so its statements          *)
(* interleave with whatever the event-loop thread is doing.                *)
(***************************************************************************)
MaxSandboxes == 2          \* create calls in a behaviour
MaxWorkers == 2            \* threadpool threads running background closes
MaxTicks == 2              \* clock advances in a behaviour

AutoCloseDelay == 86400    \* asyncio.sleep(86400) in auto_close_sandbox
ExpiryAge == 86400         \* current_time - created_at > 86400 in the sweep
SweepPeriod == 3600        \* asyncio.sleep(3600) in periodic_cleanup

Ids == 1..MaxSandboxes
NoSandbox == 0             \* get_sandbox's None

Idle == [kind |-> "idle", id |-> 0, pc |-> "idle", todo |-> <<>>]
NoReply == [op |-> "none", id |-> 0, status |-> 0, body |-> "none", note |-> "none"]
NoTimer == [state |-> "none", due |-> 0]

\* A handler written as a plain def, which Starlette runs on a threadpool
\* thread: it starts whatever the event-loop thread is doing.
loop_free_threadpool == TRUE

\* The event-loop thread is between two callbacks.  Every handler is an async
\* def that calls the blocking Sandbox methods directly, so a handler that
\* has started keeps the thread until it answers.  Nothing runs once the
\* loop was closed.
loop_free == loopTask = Idle /\ running = {} /\ ~stopped

\* An id generator that repeats itself (a seeded or clock-based generator).
uuid4_repeated == 1 + (minted % 1)

\* str(uuid.uuid4()): an id no earlier create produced.
uuid4 == minted + 1

\* A lookup that hands out a session for every id.
get_sandbox_unchecked(sandbox_id) == sandbox_id

\* core.get_sandbox
get_sandbox(sandbox_id) ==
    IF sandbox_id \notin DOMAIN sandboxes THEN NoSandbox
    ELSE sandboxes[sandbox_id].sandbox

\* del sandboxes[sandbox_id]
del_sandbox(sandbox_id) ==
    [k \in DOMAIN sandboxes \ {sandbox_id} |-> sandboxes[k]]

\* sandboxes[sandbox_id] = {'sandbox': ..., 'created_at': ..., 'venv_dir': ...}
set_sandbox(sandbox_id) ==
    [k \in DOMAIN sandboxes \cup {sandbox_id} |->
        IF k = sandbox_id
            THEN [sandbox |-> sandbox_id, created_at |-> now, venv_dir |-> sandbox_id]
        ELSE sandboxes[k]]

\* core.get_all_sandboxes_info
get_all_sandboxes_info == [k \in DOMAIN sandboxes |-> [created_at |-> sandboxes[k].created_at]]

\* The ids of a set as a list in dict (insertion) order: ids are inserted in
\* the order they are minted.
RECURSIVE InOrder(_)
InOrder(S) ==
    IF S = {} THEN <<>>
    ELSE LET m == CHOOSE x \in S : \A y \in S : x <= y
         IN  <<m>> \o InOrder(S \ {m})

\* The list comprehension of cleanup_expired_sandboxes.
expired_sandboxes ==
    InOrder({k \in DOMAIN sandboxes : now - sandboxes[k].created_at > ExpiryAge})

(***************************************************************************)
(* close_and_cleanup_sandbox and the body of auto_close_sandbox are the    *)
(* same four statements.  A task at pc runs one of them and moves to npc:  *)
(*   check     if sandbox_id in sandboxes:                                 *)
(*   read          sandbox = sandboxes[sandbox_id]['sandbox']              *)
(*   del           del sandboxes[sandbox_id]                               *)
(*   shutdown      sandbox.shutdown()                                      *)
(* read and del raise KeyError when another thread deleted the entry after *)
(* the check.  shutdown swallows what its statements raise: when           *)
(* stop_channels raises nothing else runs, when shutdown_kernel raises the *)
(* directories stay.                                                       *)
(***************************************************************************)
\* Sandbox.shutdown without its try: what a statement raises reaches the
\* caller.
propagated(raises) == IF raises = "nothing" THEN "done" ELSE "raised"

\* "except Exception: pass" around the four statements of Sandbox.shutdown:
\* the call returns normally whatever was raised.
swallowed(raises) == IF raises \in {"nothing", "stop_channels", "shutdown_kernel"}
                     THEN "done" ELSE "raised"

\* A closer without the membership test.
in_sandboxes_unguarded(sandbox_id) == sandbox_id \in Ids

\* "if sandbox_id in sandboxes:", the guard of the three closers.
in_sandboxes(sandbox_id) == sandbox_id \in DOMAIN sandboxes

CloserStep(id, pc, npc) ==
    \/ /\ pc = "check"
       /\ npc = IF in_sandboxes(id) THEN "read" ELSE "done"
       /\ UNCHANGED <<sandboxes, kernel, work, venv, shutdowns, removed>>
    \/ /\ pc = "read"
       /\ npc = IF id \in DOMAIN sandboxes THEN "del" ELSE "raised"
       /\ UNCHANGED <<sandboxes, kernel, work, venv, shutdowns, removed>>
    \/ /\ pc = "del"
       /\ id \in DOMAIN sandboxes
       /\ npc = "shutdown"
       /\ sandboxes' = del_sandbox(id)
       /\ removed' = removed \cup {id}
       /\ UNCHANGED <<kernel, work, venv, shutdowns>>
    \/ /\ pc = "del"
       /\ id \notin DOMAIN sandboxes
       /\ npc = "raised"
       /\ UNCHANGED <<sandboxes, kernel, work, venv, shutdowns, removed>>
    \/ /\ pc = "shutdown"
       /\ shutdowns' = [shutdowns EXCEPT ![id] = @ + 1]
       /\ \E raises \in {"nothing", "stop_channels", "shutdown_kernel"} :
             /\ npc = swallowed(raises)
             /\ kernel' = IF raises = "nothing" THEN [kernel EXCEPT ![id] = "closed"]
                          ELSE kernel
             /\ work' = IF raises = "nothing" THEN [work EXCEPT ![id] = FALSE] ELSE work
             /\ venv' = IF raises = "nothing" THEN [venv EXCEPT ![id] = FALSE] ELSE venv
       /\ UNCHANGED <<sandboxes, removed>>

Finished(npc) == npc \in {"done", "raised"}

Outcome(kind, id, npc) == IF npc = "raised" THEN errors \cup {<<kind, id>>} ELSE errors

\* background_tasks.add_task(close_and_cleanup_sandbox, sandbox_id): the task
\* goes to the first free threadpool thread.
add_task(id) ==
    \E w \in 1..MaxWorkers :
        /\ worker[w].pc = "idle"
        /\ \A v \in 1..(w - 1) : worker[v].pc # "idle"
        /\ worker' = [worker EXCEPT ![w] = [id |-> id, pc |-> "check"]]

\* server.close_sandbox: 404 for an unknown id, otherwise the background task
\* is queued and the handler answers "success".
close_sandbox(id) ==
    /\ loop_free
    /\ get_sandbox(id) # NoSandbox
    /\ add_task(id)
    /\ closeAck' = closeAck \cup {id}
    /\ UNCHANGED <<sandboxes, minted, kernel, work, venv, timer, sweepDue, now, ticks,
                   loopTask, shutdowns, returned, removed, errors>>
    /\ UNCHANGED <<execVars, fsVars, svcVars, instVars, provVars>>

\* One statement of close_and_cleanup_sandbox on a threadpool thread.
close_and_cleanup_sandbox(w) ==
    /\ worker[w].pc # "idle"
    /\ \E npc \in {"read", "del", "shutdown", "done", "raised"} :
          /\ CloserStep(worker[w].id, worker[w].pc, npc)
          /\ worker' = [worker EXCEPT ![w] =
                            IF Finished(npc) THEN [id |-> 0, pc |-> "idle"]
                            ELSE [id |-> worker[w].id, pc |-> npc]]
          /\ errors' = Outcome("close", worker[w].id, npc)
    /\ UNCHANGED <<minted, timer, sweepDue, now, ticks, loopTask, returned, closeAck>>
    /\ UNCHANGED <<execVars, fsVars, svcVars, instVars, provVars>>

\* A periodic_cleanup without its try: an exception of the pass ends the task,
\* and no pass follows.
next_pass_unless_raised(raised) ==
    IF raised THEN now + SweepPeriod * 1000 ELSE now + SweepPeriod

\* periodic_cleanup after a pass: "except Exception" prints what the pass
\* raised, and "await asyncio.sleep(3600)" follows on both paths.
next_pass(raised) == now + SweepPeriod

\* auto_close_sandbox wakes from its sleep.
TimerWake(id) ==
    /\ loop_free
    /\ timer[id].state = "sleeping"
    /\ now >= timer[id].due
    /\ timer' = [timer EXCEPT ![id] = [state |-> "done", due |-> 0]]
    /\ loopTask' = [kind |-> "timer", id |-> id, pc |-> "check", todo |-> <<>>]
    /\ UNCHANGED <<sandboxes, minted, kernel, work, venv, sweepDue, now, ticks, worker,
                   shutdowns, returned, removed, closeAck, errors>>
    /\ UNCHANGED <<execVars, fsVars, svcVars, instVars, provVars>>

\* One statement of auto_close_sandbox after the sleep.
auto_close_sandbox ==
    /\ loopTask.kind = "timer"
    /\ \E npc \in {"read", "del", "shutdown", "done", "raised"} :
          /\ CloserStep(loopTask.id, loopTask.pc, npc)
          /\ loopTask' = IF Finished(npc) THEN Idle ELSE [loopTask EXCEPT !.pc = npc]
          /\ errors' = Outcome("timer", loopTask.id, npc)
    /\ UNCHANGED <<minted, timer, sweepDue, now, ticks, worker, returned, closeAck>>
    /\ UNCHANGED <<execVars, fsVars, svcVars, instVars, provVars>>

\* periodic_cleanup wakes and cleanup_expired_sandboxes lists the expired ids.
SweepWake ==
    /\ loop_free
    /\ now >= sweepDue
    /\ LET todo == expired_sandboxes
       IN  IF todo = <<>>
               THEN /\ sweepDue' = next_pass(FALSE)
                    /\ UNCHANGED loopTask
           ELSE /\ loopTask' = [kind |-> "sweep", id |-> Head(todo), pc |-> "check",
                                todo |-> Tail(todo)]
                /\ UNCHANGED sweepDue
    /\ UNCHANGED <<sandboxes, minted, kernel, work, venv, timer, now, ticks, worker,
                   shutdowns, returned, removed, closeAck, errors>>
    /\ UNCHANGED <<execVars, fsVars, svcVars, instVars, provVars>>

\* One statement of cleanup_expired_sandboxes' loop: close_and_cleanup_sandbox
\* of the current id.  A KeyError leaves the loop and is caught by
\* periodic_cleanup, which sleeps until the next pass.
cleanup_expired_sandboxes ==
    /\ loopTask.kind = "sweep"
    /\ \E npc \in {"read", "del", "shutdown", "done", "raised"} :
          /\ CloserStep(loopTask.id, loopTask.pc, npc)
          /\ errors' = Outcome("sweep", loopTask.id, npc)
          /\ IF npc = "raised" \/ (npc = "done" /\ loopTask.todo = <<>>)
                 THEN /\ loopTask' = Idle
                      /\ sweepDue' = next_pass(npc = "raised")
             ELSE IF npc = "done"
                 THEN /\ loopTask' = [kind |-> "sweep", id |-> Head(loopTask.todo),
                                      pc |-> "check", todo |-> Tail(loopTask.todo)]
                      /\ UNCHANGED sweepDue
             ELSE /\ loopTask' = [loopTask EXCEPT !.pc = npc]
                  /\ UNCHANGED sweepDue
    /\ UNCHANGED <<minted, timer, now, ticks, worker, returned, closeAck>>
    /\ UNCHANGED <<execVars, fsVars, svcVars, instVars, provVars>>

\* Time passes.
Tick ==
    /\ ticks < MaxTicks
    /\ \E d \in {SweepPeriod, AutoCloseDelay} : now' = now + d
    /\ ticks' = ticks + 1
    /\ UNCHANGED <<sandboxes, minted, kernel, work, venv, timer, sweepDue, loopTask,
                   worker, shutdowns, returned, removed, closeAck, errors>>
    /\ UNCHANGED <<execVars, fsVars, svcVars, instVars, provVars>>

\* create_new_sandbox up to the try block: the id and the two mkdtemp calls.
CreateStart ==
    /\ loop_free
    /\ minted < MaxSandboxes
    /\ LET id == uuid4
       IN  /\ work' = [work EXCEPT ![id] = TRUE]
           /\ venv' = [venv EXCEPT ![id] = TRUE]
           /\ loopTask' = [kind |-> "create", id |-> id, pc |-> "copy", todo |-> <<>>]
    /\ minted' = minted + 1
    /\ UNCHANGED <<sandboxes, kernel, timer, sweepDue, now, ticks, worker, shutdowns,
                   returned, removed, closeAck, errors>>
    /\ UNCHANGED <<execVars, fsVars, svcVars, instVars, provVars>>

\* A create that registers the id before it constructs the session.
registers_early(pc) == pc = "start_kernel"

\* The statement of the try block at which the id is registered: after
\* Sandbox(...) has returned.
registers(pc) == pc = "register"

\* The registration of create_new_sandbox and the timer it schedules.
Registered(id) == set_sandbox(id)

Scheduled(id) == [timer EXCEPT ![id] = [state |-> "sleeping", due |-> now + AutoCloseDelay]]

\* One step of create_new_sandbox's try block, which either raises (the except
\* clause removes both directories and re-raises) or goes on:
\*   copy          cp -r of the base image, or uv venv
\*   start_kernel  Sandbox.__init__: KernelManager.start_kernel
\*   handshake     start_channels and wait_for_ready
\*   init_snippet  the font copy, the basic packages, execute_code(font_code)
\*   register      sandboxes[sandbox_id] = {...}
\*   schedule      asyncio.create_task(auto_close_sandbox(sandbox_id)), return
\* A failed handshake leaves the kernel process running or finds it dead.
create_new_sandbox ==
    /\ loopTask.kind = "create"
    /\ LET id == loopTask.id
           pc == loopTask.pc
       IN  \E raises \in BOOLEAN, died \in BOOLEAN :
              IF raises
                  THEN /\ work' = [work EXCEPT ![id] = FALSE]
                       /\ venv' = [venv EXCEPT ![id] = FALSE]
                       /\ kernel' = IF pc = "handshake" /\ died
                                        THEN [kernel EXCEPT ![id] = "dead"]
                                    ELSE kernel
                       /\ loopTask' = Idle
                       /\ UNCHANGED <<sandboxes, timer, returned>>
              ELSE /\ ~died
                   /\ kernel' = IF pc = "start_kernel" THEN [kernel EXCEPT ![id] = "starting"]
                                ELSE IF pc = "handshake" THEN [kernel EXCEPT ![id] = "ready"]
                                ELSE kernel
                   /\ sandboxes' = IF registers(pc) THEN Registered(id) ELSE sandboxes
                   /\ timer' = IF pc = "schedule" THEN Scheduled(id) ELSE timer
                   /\ returned' = IF pc = "schedule" THEN returned \cup {id} ELSE returned
                   /\ loopTask' =
                        IF pc = "schedule" THEN Idle
                        ELSE [loopTask EXCEPT !.pc =
                                 CASE pc = "copy" -> "start_kernel"
                                   [] pc = "start_kernel" -> "handshake"
                                   [] pc = "handshake" -> "init_snippet"
                                   [] pc = "init_snippet" -> "register"
                                   [] pc = "register" -> "schedule"]
                   /\ UNCHANGED <<work, venv>>
    /\ UNCHANGED <<minted, sweepDue, now, ticks, worker, shutdowns, removed, closeAck, errors>>
    /\ UNCHANGED <<execVars, fsVars, svcVars, instVars, provVars>>

(***************************************************************************)
(* The request handlers of server.py.  A request arrives (pending); its    *)
(* handler starts when the event-loop thread is free, looks the sandbox up *)
(* (404 when it is not registered) and calls the Sandbox method on the     *)
(* object it found.  The background closes run on their own threads, so    *)
(* their statements fall between the lookup and the method call, and       *)
(* inside the pump of execute_code.                                        *)
(***************************************************************************)
MaxRequests == 2           \* session requests in a behaviour

SessionOps == {"execute", "install", "upload", "list", "download"}

Request(op, id) == [op |-> op, id |-> id]

Answer(op, id, status, body, note) ==
    [op |-> op, id |-> id, status |-> status, body |-> body, note |-> note]

\* A handler that has started: where it is (call: about to call the Sandbox
\* method; pumping: inside execute_code's loop), how often shutdown had been
\* invoked on the session when the code was submitted, and whether the
\* session was already shut down when the method was called.
Started(op, id, pc, seen, note) ==
    [op |-> op, id |-> id, pc |-> pc, seen |-> seen, note |-> note]

\* A request for a session operation reaches the server.
Arrive(op, id) ==
    /\ ~stopped
    /\ arrivals < MaxRequests
    /\ Request(op, id) \notin pending
    /\ arrivals' = arrivals + 1
    /\ pending' = pending \cup {Request(op, id)}
    /\ UNCHANGED <<running, reply, stopped>>
    /\ UNCHANGED <<lifeVars, execVars, fsVars, instVars, provVars>>

\* The prologue the five session handlers share:
\*   sandbox = get_sandbox(sandbox_id); if not sandbox: raise HTTPException(404)
HandlerStart(r) ==
    /\ r \in pending
    /\ loop_free
    /\ pending' = pending \ {r}
    /\ IF get_sandbox(r.id) = NoSandbox
           THEN /\ reply' = Answer(r.op, r.id, 404, "Sandbox not found", "unknown")
                /\ UNCHANGED running
       ELSE /\ running' = running \cup {Started(r.op, r.id, "call", 0, "live")}
            /\ UNCHANGED reply
    /\ UNCHANGED <<arrivals, stopped>>
    /\ UNCHANGED <<lifeVars, execVars, fsVars, instVars, provVars>>

\* What the Sandbox method does on the object the lookup found:
\*   execute   kernel_client.execute(code) submits; on stopped channels the
\*             call may raise, which the handler turns into 500
\*   install   install_package returns a result dict on every path
\*   upload    makedirs(dirname(save_path), exist_ok=True), open, copy
\*   list      os.walk of work_dir, empty when the directory is gone
\*   download  get_file_path, then 404 unless the file exists
SessionCall(r) ==
    /\ r \in running
    /\ r.pc = "call"
    /\ LET note == IF shutdowns[r.id] > 0 THEN "shut_before" ELSE "live"
           done(status, body) ==
               /\ running' = running \ {r}
               /\ reply' = Answer(r.op, r.id, status, body, note)
       IN  CASE r.op = "execute" ->
                  /\ \E raises \in BOOLEAN :
                        IF raises
                            THEN /\ kernel[r.id] # "ready"
                                 /\ done(500, "error")
                        ELSE /\ running' = (running \ {r}) \cup
                                    {Started(r.op, r.id, "pumping", shutdowns[r.id], note)}
                             /\ UNCHANGED reply
                  /\ UNCHANGED work
             [] r.op = "install" -> done(200, "install_result") /\ UNCHANGED work
             [] r.op = "upload" ->
                  /\ work' = [work EXCEPT ![r.id] = TRUE]
                  /\ done(200, "file_path")
             [] r.op = "list" -> done(200, "files") /\ UNCHANGED work
             [] r.op = "download" ->
                  /\ IF work[r.id] THEN done(200, "file") ELSE done(404, "File not found")
                  /\ UNCHANGED work
    /\ UNCHANGED <<arrivals, pending, stopped>>
    /\ UNCHANGED <<sandboxes, minted, kernel, venv, timer, sweepDue, now, ticks, loopTask,
                   worker, shutdowns, returned, removed, closeAck, errors>>
    /\ UNCHANGED <<execVars, fsVars, instVars, provVars>>

\* execute_code's loop ends (idle status, execute_reply, or an exception of
\* get_iopub_msg, which is caught) and the handler answers with the record.
PumpReturn(r) ==
    /\ r \in running
    /\ r.pc = "pumping"
    /\ running' = running \ {r}
    /\ reply' = Answer(r.op, r.id, 200, "record",
                       IF shutdowns[r.id] > r.seen THEN "shut_during" ELSE r.note)
    /\ UNCHANGED <<arrivals, pending, stopped>>
    /\ UNCHANGED <<lifeVars, execVars, fsVars, instVars, provVars>>

\* server.close_sandbox, with its answer.
CloseHandler(id) ==
    /\ ~stopped
    /\ loop_free
    /\ LET note == IF id \in closeAck THEN "again" ELSE "first"
       IN  IF get_sandbox(id) = NoSandbox
               THEN /\ reply' = Answer("close", id, 404, "Sandbox not found", note)
                    /\ UNCHANGED <<worker, closeAck>>
           ELSE /\ add_task(id)
                /\ closeAck' = closeAck \cup {id}
                /\ reply' = Answer("close", id, 200, "Sandbox closed", note)
    /\ UNCHANGED <<arrivals, pending, running, stopped>>
    /\ UNCHANGED <<sandboxes, minted, kernel, work, venv, timer, sweepDue, now, ticks,
                   loopTask, shutdowns, returned, removed, errors>>
    /\ UNCHANGED <<execVars, fsVars, instVars, provVars>>

(***************************************************************************)
(* list_sandboxes.  get_all_sandboxes_info is a dict comprehension over    *)
(* sandboxes.items(): the iterator remembers the size of the dict when it  *)
(* is created, and every call for the next item (the one that finds the    *)
(* iterator exhausted included) first compares the size with the dict's    *)
(* and raises RuntimeError when they differ.  The handler runs on the      *)
(* event-loop thread; the interpreter switches to the threadpool threads   *)
(* between any two bytecodes of the comprehension's loop, so a `del` of a  *)
(* background close falls between two calls for the next item.  The        *)
(* handler has no try: FastAPI answers an exception with 500.              *)
(***************************************************************************)
\* The answer of list_sandboxes: the ids in the dict it returns, next to the
\* ids that were registered when the call began.
ListAnswer(status, ids, at_start) ==
    [op |-> "list_sandboxes", id |-> 0, status |-> status,
     body |-> IF status = 200 THEN "sandboxes_info" ELSE "Internal Server Error",
     note |-> "none", ids |-> ids, at_start |-> at_start]

\* The items the iterator has not yielded yet, in insertion order.
items(yielded) == DOMAIN sandboxes \ {yielded[i] : i \in DOMAIN yielded}

\* server.list_sandboxes starts: iter(sandboxes.items()).
ListStart ==
    /\ ~stopped
    /\ loop_free
    /\ loopTask' = [kind |-> "list", id |-> 0, pc |-> "next", todo |-> <<>>,
                    di_used |-> Cardinality(DOMAIN sandboxes),
                    at_start |-> DOMAIN sandboxes]
    /\ UNCHANGED <<sandboxes, minted, kernel, work, venv, timer, sweepDue, now, ticks,
                   worker, shutdowns, returned, removed, closeAck, errors>>
    /\ UNCHANGED <<execVars, fsVars, svcVars, instVars, provVars>>

\* One call for the next item in core.get_all_sandboxes_info, with the entry
\* it adds to the result, or the end of the comprehension.
ListNext ==
    /\ loopTask.kind = "list"
    /\ IF Cardinality(DOMAIN sandboxes) # loopTask.di_used
           THEN /\ reply' = ListAnswer(500, {}, loopTask.at_start)
                /\ loopTask' = Idle
       ELSE IF items(loopTask.todo) # {}
           THEN /\ LET sid == Head(InOrder(items(loopTask.todo)))
                   IN  loopTask' = [loopTask EXCEPT !.todo = Append(@, sid)]
                /\ UNCHANGED reply
       ELSE /\ reply' = ListAnswer(200, {loopTask.todo[i] : i \in DOMAIN loopTask.todo},
                                   loopTask.at_start)
            /\ loopTask' = Idle
    /\ UNCHANGED <<arrivals, pending, running, stopped>>
    /\ UNCHANGED <<sandboxes, minted, kernel, work, venv, timer, sweepDue, now, ticks,
                   worker, shutdowns, returned, removed, closeAck, errors>>
    /\ UNCHANGED <<execVars, fsVars, instVars, provVars>>

(***************************************************************************)
(* The clock.  asyncio runs a sleeping task as soon as its wake-up time    *)
(* has come and the event-loop thread is free: a free loop sleeps exactly  *)
(* until the next wake-up.  While a handler keeps the thread (execute_code *)
(* waits up to 3600 s for each message, as long as messages keep coming)   *)
(* time passes and no wake-up is served.                                   *)
(***************************************************************************)
MaxClock == 180000         \* the clock stops advancing here

\* The wake-up times of the sleeping tasks: the timers and periodic_cleanup.
WakeTimes == {timer[i].due : i \in {j \in Ids : timer[j].state = "sleeping"}} \cup {sweepDue}

NextWake == CHOOSE t \in WakeTimes : \A u \in WakeTimes : t <= u

Advance ==
    /\ ~stopped
    /\ loopTask = Idle
    /\ IF running = {}
           THEN /\ NextWake > now
                /\ now' = NextWake
       ELSE \E d \in {SweepPeriod, AutoCloseDelay} : now' = now + d
    /\ now' <= MaxClock
    /\ UNCHANGED <<sandboxes, minted, kernel, work, venv, timer, sweepDue, ticks, loopTask,
                   worker, shutdowns, returned, removed, closeAck, errors>>
    /\ UNCHANGED <<execVars, fsVars, svcVars, instVars, provVars>>

\* server.serve() has returned: the finally clause of run_server_async
\* cancels periodic_cleanup, and asyncio.run cancels the tasks that are left
\* (the sleeping auto_close_sandbox timers) and closes the loop.
run_server_async ==
    /\ loop_free
    /\ \A w \in 1..MaxWorkers : worker[w].pc = "idle"
    /\ stopped' = TRUE
    /\ timer' = [i \in Ids |-> IF timer[i].state = "sleeping"
                                   THEN [state |-> "cancelled", due |-> 0]
                               ELSE timer[i]]
    /\ pending' = {}
    /\ UNCHANGED <<arrivals, running, reply>>
    /\ UNCHANGED <<sandboxes, minted, kernel, work, venv, sweepDue, now, ticks, loopTask,
                   worker, shutdowns, returned, removed, closeAck, errors>>
    /\ UNCHANGED <<execVars, fsVars, instVars, provVars>>

(***************************************************************************)
(* Sandbox.install_package: one run of "uv pip install" through            *)
(* subprocess.run(capture_output=True, text=True, timeout=120).  The       *)
(* installer process exits with a code after writing to its pipes, or is   *)
(* killed at the timeout after writing what it had (TimeoutExpired), or    *)
(* cannot be started (FileNotFoundError: uv is not on the PATH).           *)
(***************************************************************************)
MaxLogLen == 2             \* the longest captured output, in lines
ExitCodes == {0, 1, 2}
Packages == {"p", "q"}
Logs == {[i \in 1..n |-> "l"] : n \in 0..MaxLogLen}

InstallerRuns ==
    {[kind |-> "exit", code |-> c, out |-> o, err |-> e] :
        c \in ExitCodes, o \in Logs, e \in Logs}
    \cup {[kind |-> "timeout", code |-> 0, out |-> o, err |-> e] : o \in Logs, e \in Logs}
    \cup {[kind |-> "not_found", code |-> 0, out |-> <<>>, err |-> <<>>]}

NoInstall == [done |-> FALSE]

\* str(e) of the exception subprocess.run raised.
str(run) == IF run.kind = "timeout" THEN <<"timed out after 120 seconds">>
            ELSE <<"No such file or directory: 'uv'">>

\* Sandbox.install_package: the dict it returns.
install_package(package_name, run) ==
    IF run.kind = "exit"
        THEN IF run.code = 0
                 THEN [done |-> TRUE, raised |-> FALSE, success |-> TRUE,
                       stdout |-> run.out, stderr |-> run.err,
                       message |-> <<"Successfully installed package: ", package_name>>]
             ELSE [done |-> TRUE, raised |-> FALSE, success |-> FALSE,
                   stdout |-> run.out, stderr |-> run.err,
                   message |-> <<"Failed to install package: ", package_name>>]
    ELSE [done |-> TRUE, raised |-> FALSE, success |-> FALSE,
          stdout |-> <<>>, stderr |-> str(run),
          message |-> <<"Installation error: ">> \o str(run)]

\* server.install_package for a registered sandbox: the dict is the answer.
InstallPackage ==
    /\ ~instOut.done
    /\ instOut' = install_package(instIn.package_name, instIn.run)
    /\ UNCHANGED instIn
    /\ UNCHANGED <<lifeVars, execVars, fsVars, svcVars, provVars>>

(***************************************************************************)
(* create_new_sandbox as one call, with the provisioning of venv_dir       *)
(* spelled out.  A directory tree is the set of what is installed in it:   *)
(* `uv venv` builds an environment that holds the interpreter only, the    *)
(* base image holds the interpreter and the libraries init_base_venv_image *)
(* managed to install.  `cp -r` exits with 0, exits with another code      *)
(* (CalledProcessError) or cannot be started (FileNotFoundError);          *)
(* shutil.copytree, `uv venv` and Sandbox(...) return or raise.            *)
(***************************************************************************)
Interpreter == "python"
Libraries == {"numpy", "pandas"}
FreshEnv == {Interpreter}
NoBase == [exists |-> FALSE, tree |-> {}]
BaseImages == {NoBase} \cup {[exists |-> TRUE, tree |-> FreshEnv \cup l] : l \in SUBSET Libraries}
CpRuns == {"ok", "failed", "not_found"}
Outcomes == {"ok", "raises"}
ProvInputs == [base : BaseImages, cp : CpRuns, copytree : Outcomes, uv_venv : Outcomes,
               session : Outcomes]

NoCreate == [done |-> FALSE]
ProvisionRaised == [raised |-> TRUE, how |-> "none", tree |-> {}]

\* The handler of CalledProcessError: rmtree(venv_dir, ignore_errors=True),
\* then shutil.copytree(BASE_VENV_IMAGE_PATH, venv_dir).
cp_failed(in) ==
    IF in.copytree = "ok"
        THEN [raised |-> FALSE, how |-> "copytree", tree |-> in.base.tree]
    ELSE ProvisionRaised

\* The if statement at the head of create_new_sandbox's try block: how
\* venv_dir was filled and with what, or that an exception left the block.
provision(in) ==
    IF in.base.exists
        THEN CASE in.cp = "ok" -> [raised |-> FALSE, how |-> "cp", tree |-> in.base.tree]
               [] in.cp = "failed" -> cp_failed(in)
               [] in.cp = "not_found" -> ProvisionRaised
    ELSE IF in.uv_venv = "ok"
        THEN [raised |-> FALSE, how |-> "uv venv", tree |-> FreshEnv]
    ELSE ProvisionRaised

\* create_new_sandbox from its first statement to its return or its raise.  A
\* Sandbox(...) that raises leaves no kernel, a running one or a dead one.
CreateSandbox ==
    /\ ~provOut.done
    /\ minted < MaxSandboxes
    /\ LET id == uuid4
           env == provision(provIn)
           ok == ~env.raised /\ provIn.session = "ok"
       IN  /\ minted' = minted + 1
           /\ work' = [work EXCEPT ![id] = ok]
           /\ venv' = [venv EXCEPT ![id] = ok]
           /\ \E left \in {"none", "starting", "dead"} :
                 kernel' = IF ok THEN [kernel EXCEPT ![id] = "ready"]
                           ELSE IF env.raised THEN kernel
                           ELSE [kernel EXCEPT ![id] = left]
           /\ sandboxes' = IF ok THEN Registered(id) ELSE sandboxes
           /\ timer' = IF ok THEN Scheduled(id) ELSE timer
           /\ returned' = IF ok THEN returned \cup {id} ELSE returned
           /\ provOut' = [done |-> TRUE, raised |-> ~ok, id |-> IF ok THEN id ELSE 0,
                          how |-> env.how, tree |-> IF ok THEN env.tree ELSE {}]
    /\ UNCHANGED provIn
    /\ UNCHANGED <<sweepDue, now, ticks, loopTask, worker, shutdowns, removed, closeAck,
                   errors>>
    /\ UNCHANGED <<execVars, fsVars, svcVars, instVars>>

(***************************************************************************)
(* One Sandbox object and its kernel: execute_code and the publish         *)

(* channel.  Text is a sequence of characters; what submission k prints is *)
(* the letter Letter(k), so that a fragment tells which submission it came *)
(* from, possibly wrapped in an ANSI colour sequence.                      *)
(***************************************************************************)
MaxExecs == 2              \* client execute calls in a behaviour
MaxMsgs == 3               \* messages the kernel publishes in a behaviour

ESC == "ESC"
Handshake == 0             \* the msg_id of wait_for_ready's kernel_info request
Letter(k) == <<"h", "a", "b", "c", "d">>[k + 1]
SubLetters == {"h", "a", "b", "c", "d"}
AsciiLetters == SubLetters \cup {"m", "l"}
ParamChars == {"0", "2", "3", "5", ";"}

\* How far ansi_escape, \x1b\[[0-9;]*[a-zA-Z], matches at the start of s (0: no match).
RECURSIVE Params(_, _)
Params(s, i) == IF i <= Len(s) /\ s[i] \in ParamChars THEN Params(s, i + 1) ELSE i

MatchLen(s) ==
    IF Len(s) >= 3 /\ s[1] = ESC /\ s[2] = "["
        THEN LET i == Params(s, 3)
             IN  IF i <= Len(s) /\ s[i] \in AsciiLetters THEN i ELSE 0
    ELSE 0

RECURSIVE ansi_escape_sub(_)
\* ansi_escape.sub('', s)
ansi_escape_sub(s) ==
    IF s = <<>> THEN <<>>
    ELSE LET m == MatchLen(s)
         IN  IF m > 0 THEN ansi_escape_sub(SubSeq(s, m + 1, Len(s)))
             ELSE <<Head(s)>> \o ansi_escape_sub(Tail(s))

Plain(k) == <<Letter(k)>>
Coloured(k) == <<ESC, "[", "3", "m", Letter(k), ESC, "[", "0", "m">>
\* "\x1b[?25l", the hide-cursor sequence progress bars print, then the letter.
CursorHide(k) == <<ESC, "[", "?", "2", "5", "l", Letter(k)>>

\* The messages the kernel publishes for request k.
Stream(k, name, text) ==
    [parent |-> k, msg_type |-> "stream", name |-> name, text |-> text, data |-> <<>>]
ErrorMsg(k) ==
    [parent |-> k, msg_type |-> "error", name |-> "", text |-> Coloured(k), data |-> <<>>]
Rich(k, msg_type) ==
    [parent |-> k, msg_type |-> msg_type, name |-> "", text |-> <<>>,
     data |-> IF msg_type = "execute_result"
                  THEN <<[type |-> "text/plain", data |-> Plain(k)],
                         [type |-> "text/html", data |-> Plain(k)]>>
              ELSE <<[type |-> "image/png", data |-> Plain(k)]>>]
Status(k, state) ==
    [parent |-> k, msg_type |-> "status", name |-> state, text |-> <<>>, data |-> <<>>]

KernelMessages(k) ==
    {Stream(k, "stdout", Coloured(k)), Stream(k, "stdout", CursorHide(k)),
     Stream(k, "stderr", Plain(k)), ErrorMsg(k),
     Rich(k, "execute_result"), Rich(k, "display_data"), Status(k, "idle")}

NoError == [name |-> <<>>, value |-> <<>>, traceback |-> <<>>, set |-> FALSE]
\* exit tells how the loop was left, status how the handler answered, seen
\* the types of the correlated messages the loop has read, read every
\* message the loop has taken off the channel, in order, and prev how the
\* loop of the call before this one was left.
NoCall == [pc |-> "idle", caller |-> "none", msg_id |-> Handshake, stdout |-> <<>>,
           stderr |-> <<>>, error |-> NoError, results |-> <<>>,
           exit |-> "none", status |-> 0, seen |-> {}, read |-> <<>>, prev |-> "none"]

\* A counter that is not advanced.
not_incremented(n) == n

\* self.last_execute_id += 1
incremented(n) == n + 1

\* A filter on the session instead of the submission: every message that
\* answers an execute request of this client passes.
correlated_same_session(msg, msg_id) == msg.parent # Handshake

\* A pump without the correlation filter.
correlated_any(msg, msg_id) == TRUE

\* msg['parent_header'].get('msg_id') != msg_id: continue
correlated(msg, msg_id) == msg.parent = msg_id

\* A client that puts its request before the ones already waiting.
execute_first(queue, msg_id) == <<msg_id>> \o queue

\* kernel_client.execute(code): the request goes onto the shell channel,
\* behind the requests sent before it.
execute(queue, msg_id) == Append(queue, msg_id)

\* A record that leaves the error out.
ExecutionRecord_without_error(c) ==
    [stdout |-> [i \in 1..Len(c.stdout) |-> ansi_escape_sub(c.stdout[i])],
     stderr |-> [i \in 1..Len(c.stderr) |-> ansi_escape_sub(c.stderr[i])],
     error |-> NoError,
     results |-> c.results]

\* A record that keeps the first representation of a rich output only.
data_items_best(data) == <<[type |-> data[1].type, data |-> data[1].data]>>

\* for data_type, data_value in data.items(): one entry per representation.
data_items(data) == [i \in 1..Len(data) |-> [type |-> data[i].type, data |-> data[i].data]]

\* The dict execute_code returns.
ExecutionRecord(c) ==
    [stdout |-> [i \in 1..Len(c.stdout) |-> ansi_escape_sub(c.stdout[i])],
     stderr |-> [i \in 1..Len(c.stderr) |-> ansi_escape_sub(c.stderr[i])],
     error |-> c.error,
     results |-> c.results]

\* execute_code up to its loop: the counter, kernel_client.execute, the empty
\* lists.  Sandbox.__init__ calls it with font_code before any client can.
ExecuteStart(caller) ==
    /\ call.pc = "idle"
    /\ IF caller = "init" THEN call.caller = "none"
       ELSE call.caller # "none" /\ Len(clientSeq) < MaxExecs
    /\ last_execute_id' = incremented(last_execute_id)
    /\ next_msg' = next_msg + 1
    /\ call' = [NoCall EXCEPT !.pc = "pumping", !.caller = caller, !.msg_id = next_msg + 1,
                             !.prev = call.exit]
    /\ clientSeq' = IF caller = "client" THEN Append(clientSeq, last_execute_id')
                    ELSE clientSeq
    /\ discarded' = {}
    /\ shell' = execute(shell, next_msg + 1)
    /\ UNCHANGED <<iopub, emitted, records, namespace>>
    /\ UNCHANGED <<lifeVars, fsVars, svcVars, instVars, provVars>>

\* The return of execute_code after the loop was left the way exit says: a
\* client gets the record and the handler answers 200, __init__ drops it.
Return(c, exit) ==
    /\ call' = [c EXCEPT !.pc = "idle", !.exit = exit, !.status = 200]
    /\ records' = IF c.caller = "client" THEN Append(records, ExecutionRecord(c))
                  ELSE records

\* One turn of execute_code's loop on a message of the publish channel.
execute_code ==
    /\ call.pc = "pumping"
    /\ iopub # <<>>
    /\ LET msg == Head(iopub)
           msg_type == msg.msg_type
           c == [call EXCEPT !.seen = @ \cup {msg_type}, !.read = Append(@, msg)]
       IN  /\ iopub' = Tail(iopub)
           /\ IF ~correlated(msg, call.msg_id)
                  THEN /\ discarded' = discarded \cup {msg.parent}
                       /\ call' = [call EXCEPT !.read = Append(@, msg)]
                       /\ UNCHANGED records
              ELSE /\ UNCHANGED discarded
                   /\ IF msg_type = "stream"
                          THEN /\ call' =
                                    IF msg.name = "stdout"
                                        THEN [c EXCEPT !.stdout = Append(@, msg.text)]
                                    ELSE IF msg.name = "stderr"
                                        THEN [c EXCEPT !.stderr = Append(@, msg.text)]
                                    ELSE c
                               /\ UNCHANGED records
                      ELSE IF msg_type = "error"
                          THEN /\ call' = [c EXCEPT !.error =
                                    [name |-> ansi_escape_sub(msg.text),
                                     value |-> ansi_escape_sub(msg.text),
                                     traceback |-> <<ansi_escape_sub(msg.text)>>,
                                     set |-> TRUE]]
                               /\ UNCHANGED records
                      ELSE IF msg_type \in {"execute_result", "display_data"}
                          THEN /\ call' = [c EXCEPT !.results = @ \o data_items(msg.data)]
                               /\ UNCHANGED records
                      ELSE IF msg_type = "execute_reply"
                              \/ (msg_type = "status" /\ msg.name = "idle")
                          THEN Return(c, "idle")
                      ELSE /\ call' = c
                           /\ UNCHANGED records
    /\ UNCHANGED <<last_execute_id, next_msg, emitted, clientSeq, shell, namespace>>
    /\ UNCHANGED <<lifeVars, fsVars, svcVars, instVars, provVars>>

\* A loop without the except clause: the Empty of get_iopub_msg reaches the
\* handler, which answers 500 and no record.
PumpTimeout_raised ==
    /\ call.pc = "pumping"
    /\ iopub = <<>>
    /\ call' = [call EXCEPT !.pc = "idle", !.exit = "timeout", !.status = 500]
    /\ UNCHANGED <<last_execute_id, next_msg, iopub, emitted, records, clientSeq,
                   discarded, shell, namespace>>
    /\ UNCHANGED <<lifeVars, fsVars, svcVars, instVars, provVars>>

\* get_iopub_msg(timeout=3600) raises Empty: the except clause leaves the loop.
PumpTimeout ==
    /\ call.pc = "pumping"
    /\ iopub = <<>>
    /\ Return(call, "timeout")
    /\ UNCHANGED <<last_execute_id, next_msg, iopub, emitted, clientSeq, discarded,
                   shell, namespace>>
    /\ UNCHANGED <<lifeVars, fsVars, svcVars, instVars, provVars>>

\* Reading or dispatching a message raises something other than Empty (a
\* message that cannot be deserialised, a missing key): the same except
\* clause leaves the loop.  The message at fault is consumed or not.
PumpError ==
    /\ call.pc = "pumping"
    /\ Return(call, "error")
    /\ iopub' \in {iopub} \cup (IF iopub = <<>> THEN {} ELSE {Tail(iopub)})
    /\ UNCHANGED <<last_execute_id, next_msg, emitted, clientSeq, discarded, shell,
                   namespace>>
    /\ UNCHANGED <<lifeVars, fsVars, svcVars, instVars, provVars>>

\* The kernel takes the next request off the shell channel and runs it: the
\* code sees the interpreter as the requests run before it left it.
KernelProcess ==
    /\ shell # <<>>
    /\ namespace' = Append(namespace, Head(shell))
    /\ shell' = Tail(shell)
    /\ UNCHANGED <<last_execute_id, next_msg, iopub, emitted, call, records, clientSeq,
                   discarded>>
    /\ UNCHANGED <<lifeVars, fsVars, svcVars, instVars, provVars>>

\* The kernel publishes a message for the handshake or for a request it has
\* taken: output of a request can arrive after the call that sent it returned.
KernelPublish ==
    /\ emitted < MaxMsgs
    /\ \E k \in {Handshake} \cup {namespace[i] : i \in 1..Len(namespace)} :
          \E msg \in IF k = Handshake THEN {Status(k, "idle")} ELSE KernelMessages(k) :
             iopub' = Append(iopub, msg)
    /\ emitted' = emitted + 1
    /\ UNCHANGED <<last_execute_id, next_msg, call, records, clientSeq, discarded,
                   shell, namespace>>
    /\ UNCHANGED <<lifeVars, fsVars, svcVars, instVars, provVars>>

\* Sandbox.__init__ after wait_for_ready: self.last_execute_id = 0.
ExecIdle ==
    /\ last_execute_id = 0
    /\ next_msg = Handshake
    /\ iopub = <<>>
    /\ emitted = 0
    /\ call = NoCall
    /\ records = <<>>
    /\ clientSeq = <<>>
    /\ discarded = {}
    /\ shell = <<>>
    /\ namespace = <<>>

InitLife ==
    /\ sandboxes = <<>>
    /\ minted = 0
    /\ kernel = [i \in Ids |-> "none"]
    /\ work = [i \in Ids |-> FALSE]
    /\ venv = [i \in Ids |-> FALSE]
    /\ timer = [i \in Ids |-> NoTimer]
    /\ sweepDue = 0
    /\ now = 0
    /\ ticks = 0
    /\ loopTask = Idle
    /\ worker = [w \in 1..MaxWorkers |-> [id |-> 0, pc |-> "idle"]]
    /\ shutdowns = [i \in Ids |-> 0]
    /\ returned = {}
    /\ removed = {}
    /\ closeAck = {}
    /\ errors = {}

\* The gateway's variables while the registry is checked.
FsIdle ==
    /\ fsIn = [file_path |-> <<>>, filename |-> DefaultFilename, bytes |-> <<>>]
    /\ links = {}
    /\ files = InitFiles
    /\ dirs = InitDirs
    /\ content = [f \in InitFiles |-> OldBytes]
    /\ fsOut = NoResult

InstIdle ==
    /\ instIn = [package_name |-> "p", run |-> [kind |-> "exit", code |-> 0,
                                                  out |-> <<>>, err |-> <<>>]]
    /\ instOut = NoInstall

ProvIdle ==
    /\ provIn = [base |-> NoBase, cp |-> "ok", copytree |-> "ok", uv_venv |-> "ok",
                 session |-> "ok"]
    /\ provOut = NoCreate

SvcIdle ==
    /\ arrivals = 0
    /\ pending = {}
    /\ running = {}
    /\ reply = NoReply
    /\ stopped = FALSE

Init == InitLife /\ ExecIdle /\ FsIdle /\ SvcIdle /\ InstIdle /\ ProvIdle

Next ==
    \/ CreateStart
    \/ create_new_sandbox
    \/ \E id \in Ids : close_sandbox(id)
    \/ \E w \in 1..MaxWorkers : close_and_cleanup_sandbox(w)
    \/ \E id \in Ids : TimerWake(id)
    \/ auto_close_sandbox
    \/ SweepWake
    \/ cleanup_expired_sandboxes
    \/ Tick

Spec == Init /\ [][Next]_vars

InitExec == InitLife /\ ExecIdle /\ FsIdle /\ SvcIdle /\ InstIdle /\ ProvIdle

NextExec ==
    \/ ExecuteStart("init")
    \/ ExecuteStart("client")
    \/ execute_code
    \/ PumpTimeout
    \/ PumpError
    \/ KernelProcess
    \/ KernelPublish

SpecExec == InitExec /\ [][NextExec]_vars

InitFs ==
    /\ InitLife
    /\ ExecIdle
    /\ fsIn \in {[file_path |-> p, filename |-> DefaultFilename, bytes |-> b] :
                    p \in PathInputs, b \in Bytes}
               \cup {[file_path |-> <<>>, filename |-> f, bytes |-> b] :
                       f \in FileNames, b \in Bytes}
    /\ links \in InitLinks
    /\ files = InitFiles
    /\ dirs = InitDirs
    /\ content = [f \in InitFiles |-> OldBytes]
    /\ fsOut = NoResult
    /\ SvcIdle
    /\ InstIdle
    /\ ProvIdle

NextFs == GetFilePath \/ download_file \/ upload_file

SpecFs == InitFs /\ [][NextFs]_vars

\* Two sandboxes created one after the other at time 0, the sweep asleep.
InitOps ==
    /\ sandboxes = [i \in Ids |-> [sandbox |-> i, created_at |-> 0, venv_dir |-> i]]
    /\ minted = MaxSandboxes
    /\ kernel = [i \in Ids |-> "ready"]
    /\ work = [i \in Ids |-> TRUE]
    /\ venv = [i \in Ids |-> TRUE]
    /\ timer = [i \in Ids |-> [state |-> "sleeping", due |-> AutoCloseDelay]]
    /\ sweepDue = SweepPeriod
    /\ now = 0
    /\ ticks = 0
    /\ loopTask = Idle
    /\ worker = [w \in 1..MaxWorkers |-> [id |-> 0, pc |-> "idle"]]
    /\ shutdowns = [i \in Ids |-> 0]
    /\ returned = Ids
    /\ removed = {}
    /\ closeAck = {}
    /\ errors = {}
    /\ ExecIdle
    /\ FsIdle
    /\ SvcIdle
    /\ InstIdle
    /\ ProvIdle

NextOps ==
    \/ \E op \in SessionOps, id \in Ids : Arrive(op, id)
    \/ \E r \in pending : HandlerStart(r)
    \/ \E r \in running : SessionCall(r)
    \/ \E r \in running : PumpReturn(r)
    \/ \E id \in Ids : CloseHandler(id)
    \/ \E w \in 1..MaxWorkers : close_and_cleanup_sandbox(w)

SpecOps == InitOps /\ [][NextOps]_vars

\* Two sandboxes created at time 0 and still registered at 0 + 86400 + 3600,
\* their timers and the sweep overdue: a handler has kept the event-loop
\* thread until now (SpecTime reaches this state).  The timers stay asleep
\* in SpecSweep: it follows what periodic_cleanup does without them.
InitSweep ==
    /\ sandboxes = [i \in Ids |-> [sandbox |-> i, created_at |-> 0, venv_dir |-> i]]
    /\ minted = MaxSandboxes
    /\ kernel = [i \in Ids |-> "ready"]
    /\ work = [i \in Ids |-> TRUE]
    /\ venv = [i \in Ids |-> TRUE]
    /\ timer = [i \in Ids |-> [state |-> "sleeping", due |-> AutoCloseDelay]]
    /\ sweepDue = SweepPeriod
    /\ now = ExpiryAge + SweepPeriod
    /\ ticks = 0
    /\ loopTask = Idle
    /\ worker = [w \in 1..MaxWorkers |-> [id |-> 0, pc |-> "idle"]]
    /\ shutdowns = [i \in Ids |-> 0]
    /\ returned = Ids
    /\ removed = {}
    /\ closeAck = {}
    /\ errors = {}
    /\ ExecIdle
    /\ FsIdle
    /\ SvcIdle
    /\ InstIdle
    /\ ProvIdle

NextSweep ==
    \/ \E id \in Ids : close_sandbox(id)
    \/ \E w \in 1..MaxWorkers : close_and_cleanup_sandbox(w)
    \/ SweepWake
    \/ cleanup_expired_sandboxes
    \/ Tick

\* The event loop runs a task that is ready, a task between two of its
\* statements goes on, the threadpool threads run, and time passes.  Nothing
\* is assumed of the requests.
FairSweep ==
    /\ WF_vars(SweepWake)
    /\ WF_vars(cleanup_expired_sandboxes)
    /\ \A w \in 1..MaxWorkers : WF_vars(close_and_cleanup_sandbox(w))
    /\ WF_vars(Tick)

SpecSweep == InitSweep /\ [][NextSweep]_vars /\ FairSweep

NextList ==
    \/ \E id \in Ids : CloseHandler(id)
    \/ \E w \in 1..MaxWorkers : close_and_cleanup_sandbox(w)
    \/ ListStart
    \/ ListNext

SpecList == InitOps /\ [][NextList]_vars

NextTime ==
    \/ \E id \in Ids : Arrive("execute", id)
    \/ \E r \in pending : HandlerStart(r)
    \/ \E r \in running : SessionCall(r)
    \/ \E r \in running : PumpReturn(r)
    \/ \E id \in Ids : TimerWake(id)
    \/ auto_close_sandbox
    \/ SweepWake
    \/ cleanup_expired_sandboxes
    \/ Advance
    \/ run_server_async

SpecTime == InitOps /\ [][NextTime]_vars

InitInstall ==
    /\ InitLife
    /\ ExecIdle
    /\ FsIdle
    /\ SvcIdle
    /\ instIn \in {[package_name |-> p, run |-> r] : p \in Packages, r \in InstallerRuns}
    /\ instOut = NoInstall
    /\ ProvIdle

NextInstall == InstallPackage

SpecInstall == InitInstall /\ [][NextInstall]_vars

InitCreate ==
    /\ InitLife
    /\ ExecIdle
    /\ FsIdle
    /\ SvcIdle
    /\ InstIdle
    /\ provIn \in ProvInputs
    /\ provOut = NoCreate

NextCreate == CreateSandbox

SpecCreate == InitCreate /\ [][NextCreate]_vars

(***************************************************************************)
(* The session object used directly: core.Sandbox is exported by the       *)
(* package (as CoreSandbox), so shutdown can be called on a session any    *)
(* number of times, and upload_file after it.                              *)
(***************************************************************************)
MaxShutdowns == 3          \* direct shutdown calls on one session

\* Sandbox.shutdown called on the session of sandbox id.  The note tells
\* whether the session was already torn down when the call began.
shutdown(id) ==
    /\ shutdowns[id] < MaxShutdowns
    /\ \E npc \in {"done", "raised"} :
          /\ CloserStep(id, "shutdown", npc)
          /\ errors' = Outcome("shutdown", id, npc)
          /\ reply' = Answer("shutdown", id, 0, npc,
                             IF kernel[id] = "closed" /\ ~work[id] /\ ~venv[id]
                                 THEN "again" ELSE "first")
    /\ UNCHANGED <<minted, timer, sweepDue, now, ticks, loopTask, worker, returned,
                   closeAck>>
    /\ UNCHANGED <<arrivals, pending, running, stopped>>
    /\ UNCHANGED <<execVars, fsVars, instVars, provVars>>

\* os.makedirs(os.path.dirname(save_path), exist_ok=True) in
\* Sandbox.upload_file: the working directory is there after the call.
makedirs(id) ==
    /\ ~work[id]
    /\ work' = [work EXCEPT ![id] = TRUE]
    /\ reply' = Answer("upload", id, 0, "file_path", "none")
    /\ UNCHANGED <<sandboxes, minted, kernel, venv, timer, sweepDue, now, ticks, loopTask,
                   worker, shutdowns, returned, removed, closeAck, errors>>
    /\ UNCHANGED <<arrivals, pending, running, stopped>>
    /\ UNCHANGED <<execVars, fsVars, instVars, provVars>>

NextSession ==
    \/ \E id \in Ids : shutdown(id)
    \/ \E id \in Ids : makedirs(id)

SpecSession == InitOps /\ [][NextSession]_vars

(***************************************************************************)
(* The claims.                                                             *)
(***************************************************************************)

\* C1: when close_sandbox has answered "success" for an id, the id is no
\* longer in the registry, so every later lookup finds no sandbox.
C1_CloseUnregistersBeforeReturn ==
    \A id \in closeAck : get_sandbox(id) = NoSandbox

\* C2: an id create returned is looked up successfully, with its own
\* session, until a close of it was answered or it was removed on expiry,
\* and is not found in any state after that.
C2_LookupUntilClosed ==
    \A id \in returned :
        /\ (id \notin closeAck /\ id \notin removed) => get_sandbox(id) = id
        /\ (id \in closeAck \/ id \in removed) => get_sandbox(id) = NoSandbox

\* C3: however an explicit close, the expiry timer and the sweep interleave
\* on one id, the session is shut down once and no task raises.
C3_RaceBenign ==
    /\ errors = {}
    /\ \A id \in Ids : shutdowns[id] <= 1

\* C9: when create_new_sandbox exits, by return or by raise, the new sandbox
\* is fully present (registered, kernel live, both directories) or fully
\* absent (not registered, no kernel process, no directory).
C9_CreateAllOrNothing ==
    [][(loopTask.kind = "create" /\ loopTask'.kind = "idle") =>
          LET id == loopTask.id
          IN  \/ /\ id \in DOMAIN sandboxes'
                 /\ kernel'[id] = "ready"
                 /\ work'[id] /\ venv'[id]
              \/ /\ id \notin DOMAIN sandboxes'
                 /\ kernel'[id] \notin {"starting", "ready"}
                 /\ ~work'[id] /\ ~venv'[id]]_vars

\* C10: an id is registered if and only if its session is live and both its
\* directories exist.  Stated for the ids create returned, which leaves out
\* the states inside create and those C9 is about.
C10_RegisteredIffLive ==
    \A id \in returned :
        id \in DOMAIN sandboxes <=> (kernel[id] = "ready" /\ work[id] /\ venv[id])

LettersOf(text) == {text[i] : i \in 1..Len(text)} \cap SubLetters

\* The submissions whose output an execution record holds.
RecordLetters(r) ==
    UNION ( {LettersOf(r.stdout[i]) : i \in 1..Len(r.stdout)}
            \cup {LettersOf(r.stderr[i]) : i \in 1..Len(r.stderr)}
            \cup {LettersOf(r.results[i].data) : i \in 1..Len(r.results)}
            \cup {LettersOf(r.error.name), LettersOf(r.error.value)}
            \cup {LettersOf(r.error.traceback[i]) : i \in 1..Len(r.error.traceback)} )

\* C4: the record an execute call returns holds output of its own submission
\* only: nothing of the initialization snippet, of another client call or of
\* the handshake.
C4_RecordOnlyOwnOutput ==
    (call.caller = "client" /\ call.pc = "idle") =>
        RecordLetters(records[Len(records)]) \subseteq {Letter(call.msg_id)}

\* A client call returned its own output after it skipped late output of the
\* initialization snippet.
C4_Witness ==
    /\ call.caller = "client" /\ call.pc = "idle"
    /\ 1 \in discarded
    /\ records[Len(records)].stdout # <<>>
    /\ records[Len(records)].results # <<>>

RecordFields == {"stdout", "stderr", "error", "results"}

\* C5, as claimed: the client calls of a sandbox have the sequence numbers
\* 1, 2, 3, ... and the record carries the number.
C5_CounterFromOne ==
    /\ \A i \in 1..Len(clientSeq) : clientSeq[i] = i
    /\ \A i \in 1..Len(records) : "exec_counter" \in DOMAIN records[i]

\* C5, as amended: the initialization snippet takes 1, so the client calls
\* have 2, 3, 4, ...; the record holds stdout, stderr, error and results and
\* no sequence number.
C5_CounterFromTwo ==
    /\ \A i \in 1..Len(clientSeq) : clientSeq[i] = i + 1
    /\ \A i \in 1..Len(records) : DOMAIN records[i] = RecordFields
    /\ call.pc = "idle" => last_execute_id = Len(records) + (IF call.caller = "none" THEN 0 ELSE 1)

\* Two client calls have returned.
C5_Witness ==
    /\ Len(clientSeq) >= 2
    /\ Len(records) >= 2

\* C6: get_file_path returns work_dir or a path below it, or fails with 403.
C6_ResolveContained ==
    fsOut.op = "resolve" =>
        \/ fsOut.status = 403
        \/ fsOut.status = 200 /\ IsWithin(fsOut.path, work_dir)

\* C7: download never serves a file whose symlink-resolved location is
\* outside work_dir.  Stated for the requests whose normalised path is
\* inside work_dir: the ones that can get outside through a link only.
C7_DownloadContained ==
    (fsOut.op = "download" /\ fsOut.status = 200 /\ IsWithin(fsOut.path, work_dir))
        => IsWithin(fsOut.real, realpath(work_dir, links))

\* C8: whatever path or filename an upload names, the file is written inside
\* work_dir and nothing outside work_dir is created.
C8_UploadContained ==
    /\ (fsOut.op = "upload" /\ fsOut.status = 200) => IsWithin(fsOut.real, work_dir)
    /\ \A d \in (dirs \ InitDirs) \cup (files \ InitFiles) : IsWithin(d, work_dir)

\* The session of id is torn down: kernel shut down, no directory on disk.
Absent(id) == kernel[id] = "closed" /\ ~work[id] /\ ~venv[id]

\* The background close of id returns from shutdown in this step.
CloseReturns(id) ==
    \E w \in 1..MaxWorkers :
        worker[w].id = id /\ worker[w].pc = "shutdown" /\ worker'[w].pc = "idle"

\* C12: after close was accepted for an id, its background teardown leaves
\* the kernel shut down and both directories removed, and from then on they
\* stay absent whatever else is in flight for that id.
C12_ClosedStaysAbsent ==
    [][\A id \in closeAck :
          /\ CloseReturns(id) => Absent(id)'
          /\ Absent(id) => Absent(id)']_vars

\* C13: a close of an id whose close was answered before has the same answer
\* as the first one, raises nothing in the background and does not shut the
\* session down a second time.
C13_DoubleCloseNoop ==
    (reply.op = "close" /\ reply.note = "again") =>
        /\ reply.status = 200
        /\ <<"close", reply.id>> \notin errors
        /\ shutdowns[reply.id] <= 1

\* C14: an execute whose session was shut down while it was pumping is not
\* answered with an execution record.
C14_ShutdownWhilePumping ==
    reply.note = "shut_during" => (reply.status # 200 /\ reply.body # "record")

\* C15: an operation invoked on a session that was shut down before fails:
\* no record, install result, saved path, listing or file is returned.
C15_ClosedSessionFails ==
    reply.note = "shut_before" => reply.status \notin {200}

\* C16: per sandbox at most one execute or install is in progress.
C16_SingleFlight ==
    \A id \in Ids :
        Cardinality({r \in running : r.id = id /\ r.op \in {"execute", "install"}}) <= 1

\* An execute is pumping while another execute or install for the same
\* sandbox has arrived and waits.
C16_Witness ==
    \E r \in running, q \in pending :
        /\ r.id = q.id
        /\ r.op = "execute" /\ r.pc = "pumping"
        /\ q.op \in {"execute", "install"}

\* C17: a request for sandbox B that arrived while only operations on other
\* sandboxes are in progress can start at once.
C17_DistinctParallel ==
    \A q \in pending :
        (running # {} /\ \A r \in running : r.id # q.id) => ENABLED HandlerStart(q)

\* C20: when shutdown returns, whichever of its statements raised, the
\* kernel process is terminated and both directories are removed.
C20_ShutdownReleases ==
    [][\A id \in Ids : shutdowns'[id] > shutdowns[id] => Absent(id)']_vars

\* C11: once the service has shut down, every sandbox create registered
\* was destroyed, exactly once: no kernel process runs and neither directory
\* exists.
C11_DestroyedByShutdown ==
    stopped => \A id \in returned :
                  /\ shutdowns[id] = 1
                  /\ kernel[id] \notin {"starting", "ready"}
                  /\ ~work[id] /\ ~venv[id]

\* C18: a sandbox created at time T is not registered at any time later than
\* T + budget + sweep period.
C18_ExpiryDeadline ==
    \A id \in DOMAIN sandboxes :
        now <= sandboxes[id].created_at + ExpiryAge + SweepPeriod

\* C19: an expiry through the sweep and an expiry through the timer end in
\* the same state: the id unregistered, its session shut down once, both
\* directories removed, every other sandbox as it was.
C19_ExpiryRoutesAgree ==
    [][(/\ loopTask.kind \in {"timer", "sweep"}
        /\ loopTask.pc = "shutdown"
        /\ shutdowns'[loopTask.id] > shutdowns[loopTask.id]) =>
          LET id == loopTask.id
          IN  /\ id \notin DOMAIN sandboxes'
              /\ shutdowns'[id] = 1
              /\ kernel'[id] = "closed" /\ ~work'[id] /\ ~venv'[id]
              /\ \A o \in Ids \ {id} :
                    /\ (o \in DOMAIN sandboxes') = (o \in DOMAIN sandboxes)
                    /\ kernel'[o] = kernel[o] /\ work'[o] = work[o] /\ venv'[o] = venv[o]
                    /\ shutdowns'[o] = shutdowns[o]]_vars

\* C21: Sandbox.shutdown never raises to its caller, and a call on a session
\* that is already shut down (kernel terminated, both directories gone)
\* leaves the registry, the kernel and the directories as they were.
C21_ShutdownSilentIdempotent ==
    [][\A id \in Ids :
          shutdowns'[id] > shutdowns[id] =>
              /\ errors' = errors
              /\ Absent(id) =>
                    /\ kernel'[id] = "closed" /\ ~work'[id] /\ ~venv'[id]
                    /\ UNCHANGED <<sandboxes, kernel, work, venv>>]_vars

C21_Witness ==
    /\ reply.op = "shutdown"
    /\ reply.note = "again"
    /\ reply.body = "done"
    /\ shutdowns[reply.id] >= 2
    /\ Absent(reply.id)

\* C22: when get_iopub_msg times out during a client's execute, the call
\* answers 200 with a record of what was collected so far, the registry, the
\* kernel session, the directories and the counter are left as they were,
\* and the next execute call is accepted.
C22_TimeoutReturnsCollected ==
    [][/\ (call.pc = "pumping" /\ call'.pc = "idle" /\ call'.exit = "timeout"
            /\ call.caller = "client") =>
              /\ call'.status = 200
              /\ Len(records') = Len(records) + 1
              /\ LET r == records'[Len(records')]
                 IN  /\ Len(r.stdout) = Len(call.stdout)
                     /\ Len(r.stderr) = Len(call.stderr)
                     /\ r.results = call.results
                     /\ r.error = call.error
              /\ UNCHANGED <<sandboxes, kernel, work, venv, last_execute_id>>
       /\ (call.pc = "idle" /\ call.exit = "timeout" /\ call.caller = "client"
            /\ Len(clientSeq) < MaxExecs) =>
              ENABLED ExecuteStart("client")]_vars

\* A client's call timed out after it had collected output, and returned it.
C22_Witness ==
    /\ call.pc = "idle"
    /\ call.exit = "timeout"
    /\ call.caller = "client"
    /\ call.stdout # <<>>
    /\ Len(records) = 1
    /\ records[1].stdout # <<>>
    /\ Len(clientSeq) < MaxExecs

C24_ErrorInRecord ==
    (call.pc = "idle" /\ call.caller = "client") =>
        /\ call.status = 200
        /\ Len(records) = Len(clientSeq)
        /\ LET r == records[Len(records)]
           IN  /\ r.error.set <=> "error" \in call.seen
               /\ r.error.set =>
                     /\ r.error.name = Plain(call.msg_id)
                     /\ r.error.value = Plain(call.msg_id)
                     /\ r.error.traceback = <<Plain(call.msg_id)>>

C24_Witness ==
    /\ call.pc = "idle"
    /\ call.caller = "client"
    /\ "error" \in call.seen
    /\ call.exit = "idle"
    /\ records[Len(records)].error.set

\* C25: when reading or dispatching a publish-channel message raises
\* something other than the receive timeout, the execute answers 500 and
\* returns no execution record.
C25_PumpFailureIs500 ==
    (call.pc = "idle" /\ call.caller = "client" /\ call.exit = "error") =>
        /\ call.status = 500
        /\ Len(records) < Len(clientSeq)

\* The strings of a record that are ANSI-stripped.
StrippedStrings(r) ==
    {r.stdout[i] : i \in 1..Len(r.stdout)}
    \cup {r.stderr[i] : i \in 1..Len(r.stderr)}
    \cup {r.error.name, r.error.value}
    \cup {r.error.traceback[i] : i \in 1..Len(r.error.traceback)}

\* C30: no string in stdout, stderr or the error of an execution record
\* holds an escape character, whatever the interpreter printed.
C30_NoEscapeInRecord ==
    \A n \in 1..Len(records) :
        \A t \in StrippedStrings(records[n]) :
            \A i \in 1..Len(t) : t[i] # ESC

\* C27: for a relative path P that lies inside work_dir and any bytes B, an
\* upload of B to P that was answered 200, followed by a download of P,
\* returns B.
C27_UploadDownloadRoundTrip ==
    (/\ fsOut.op = "download"
     /\ fsOut.after
     /\ fsIn.file_path # <<>>
     /\ Head(fsIn.file_path) # Slash
     /\ IsWithin(normpath(join(work_dir, fsIn.file_path)), work_dir))
        => fsOut.status = 200 /\ fsOut.body = fsIn.bytes

\* C29: an upload (or download) on the sandbox of work_dir leaves the
\* directory of another sandbox as it was: the same files, the same
\* directories, the same bytes.
C29_OtherSandboxUntouched ==
    [][\A p \in files \cup dirs \cup files' \cup dirs' :
          IsWithin(p, other_work_dir) =>
              /\ (p \in files') = (p \in files)
              /\ (p \in dirs') = (p \in dirs)
              /\ p \in files => content'[p] = content[p]]_vars

\* C26: install_package never raises for an installer failure; when the
\* installer exits non-zero, times out or cannot be started the result has
\* success = false and carries the output captured from the installer, and
\* success is true exactly when the installer exited with code 0.
C26_InstallResult ==
    instOut.done =>
        /\ ~instOut.raised
        /\ instOut.success <=> (instIn.run.kind = "exit" /\ instIn.run.code = 0)
        /\ ~instOut.success =>
              /\ instOut.stdout = instIn.run.out
              /\ instIn.run.err # <<>> => instOut.stderr = instIn.run.err

C31_UnknownIs404 ==
    [][/\ \A r \in pending :
              (r \notin pending' /\ r.id \notin DOMAIN sandboxes) =>
                  /\ reply'.op = r.op /\ reply'.id = r.id /\ reply'.status = 404
                  /\ running' = running
                  /\ UNCHANGED <<sandboxes, kernel, work, venv, worker, shutdowns>>
       /\ (reply' # reply /\ reply'.op = "close" /\ reply'.id \notin DOMAIN sandboxes) =>
              /\ reply'.status = 404
              /\ UNCHANGED <<sandboxes, kernel, work, venv, worker, shutdowns, closeAck>>]_vars

\* A session request for an id that was removed from the registry has been
\* answered 404.
C31_Witness ==
    /\ reply.op \in SessionOps
    /\ reply.status = 404
    /\ reply.note = "unknown"
    /\ reply.id \in removed
    /\ reply.id \notin DOMAIN sandboxes

\* The messages a call has read that answer its own submission, in order.
Own(c) == SelectSeq(c.read, LAMBDA m : m.parent = c.msg_id)

\* execute_reply, or status with execution state idle.
Terminal(m) == m.msg_type = "execute_reply" \/ (m.msg_type = "status" /\ m.name = "idle")

\* The stream fragments of one channel among the messages, stripped.
Fragments(msgs, name) ==
    LET on == SelectSeq(msgs, LAMBDA m : m.msg_type = "stream" /\ m.name = name)
    IN  [i \in 1..Len(on) |-> ansi_escape_sub(on[i].text)]

RECURSIVE Representations(_)
\* The representations of the rich outputs among the messages, in order.
Representations(msgs) ==
    IF msgs = <<>> THEN <<>>
    ELSE (IF Head(msgs).msg_type \in {"execute_result", "display_data"}
              THEN Head(msgs).data ELSE <<>>) \o Representations(Tail(msgs))

\* C32: a client's execute leaves its loop at the first message it reads
\* that answers its own submission and is an execute_reply or an idle
\* status; an idle status of another submission does not end it; and the
\* stdout and stderr it returns are the stream fragments of its own
\* submission it read, each channel in the order read.
C32_StopsAtOwnTerminal ==
    call.caller = "client" =>
        /\ \A i \in 1..Len(call.read) :
              (call.read[i].parent = call.msg_id /\ Terminal(call.read[i])) =>
                  i = Len(call.read) /\ call.pc = "idle" /\ call.exit = "idle"
        /\ (call.pc = "idle" /\ call.exit = "idle") =>
              /\ call.read # <<>>
              /\ call.read[Len(call.read)].parent = call.msg_id
              /\ Terminal(call.read[Len(call.read)])
        /\ call.pc = "idle" =>
              /\ records[Len(records)].stdout = Fragments(Own(call), "stdout")
              /\ records[Len(records)].stderr = Fragments(Own(call), "stderr")

\* A client's call read the idle status of the handshake, went on, collected
\* a fragment of its own and ended on its own idle status.
C32_Witness ==
    /\ call.caller = "client" /\ call.pc = "idle" /\ call.exit = "idle"
    /\ Len(call.read) = 3
    /\ call.read[1] = Status(Handshake, "idle")
    /\ call.read[2].msg_type = "stream" /\ call.read[2].parent = call.msg_id
    /\ Len(records[Len(records)].stdout) + Len(records[Len(records)].stderr) = 1

\* C33: the results of a record are the representations of every
\* execute_result and display_data message of the submission that the call
\* read, one entry each, in the order the messages were read.
C33_ResultsComplete ==
    (call.caller = "client" /\ call.pc = "idle") =>
        records[Len(records)].results = Representations(Own(call))

\* An execute_result with two representations and a display_data, read in
\* the opposite order.
C33_Witness ==
    /\ call.caller = "client" /\ call.pc = "idle"
    /\ Len(call.read) >= 2
    /\ call.read[1] = Rich(call.msg_id, "display_data")
    /\ call.read[2] = Rich(call.msg_id, "execute_result")
    /\ Len(records[Len(records)].results) = 3

\* C34: when the call before ended on the receive timeout, a client's call
\* does not end on the late idle status of that earlier submission and its
\* record holds none of the earlier submission's late output.
C34_LateOutputIgnored ==
    (call.caller = "client" /\ call.prev = "timeout") =>
        /\ (call.pc = "idle" /\ call.exit = "idle") =>
              call.read[Len(call.read)].parent = call.msg_id
        /\ call.pc = "idle" =>
              RecordLetters(records[Len(records)]) \subseteq {Letter(call.msg_id)}

\* The second client call read a late fragment and the late idle status of
\* the first, which had timed out, and ended on its own idle status.
C34_Witness ==
    /\ call.caller = "client" /\ call.prev = "timeout" /\ call.msg_id = 3
    /\ call.pc = "idle" /\ call.exit = "idle"
    /\ Len(call.read) = 3
    /\ call.read[1].msg_type = "stream" /\ call.read[1].parent = 2
    /\ call.read[2] = Status(2, "idle")
    /\ call.read[3] = Status(3, "idle")

\* C35: create registers an id only after the session was constructed
\* (kernel started, handshake done, initialization snippet's call returned),
\* schedules the expiry after the registration and returns the id last: a
\* registered id always has a session that is ready, and a lookup or a list
\* never shows an id whose create is still before its registration.
C35_RegisteredAfterConstruction ==
    /\ \A id \in DOMAIN sandboxes :
          /\ kernel[id] = "ready"
          /\ (loopTask.kind = "create" /\ loopTask.id = id) => loopTask.pc = "schedule"
    /\ \A id \in Ids :
          /\ timer[id].state # "none" => id \in DOMAIN sandboxes \cup removed
          /\ id \in returned => timer[id].state # "none"

\* A create is between its registration and the scheduling of the expiry.
C35_Witness ==
    /\ loopTask.kind = "create"
    /\ loopTask.pc = "schedule"
    /\ loopTask.id \in DOMAIN sandboxes
    /\ timer[loopTask.id].state = "none"
    /\ loopTask.id \notin returned

\* C36: when the base image exists and copying it into venv_dir fails, create
\* builds a fresh empty environment in venv_dir instead and succeeds: the id
\* is registered and venv_dir holds what a fresh build holds.  (Stated for
\* the calls in which the fresh build and the session's construction would
\* themselves succeed.)
C36_CopyFailureFallsBackToFreshBuild ==
    (/\ provOut.done
     /\ provIn.base.exists
     /\ provIn.cp # "ok"
     /\ provIn.uv_venv = "ok"
     /\ provIn.session = "ok")
    => /\ ~provOut.raised
       /\ provOut.id \in DOMAIN sandboxes
       /\ provOut.how = "uv venv"
       /\ provOut.tree = FreshEnv

\* C37: created_at is written at registration and never again, no step of a
\* session operation changes it or the wake-up time of the timer, and the
\* timer expires the sandbox at the moment fixed at its creation
\* (created_at + 86400) whatever was done with the sandbox in between.
C37_ExpiryFixedAtCreation ==
    [][\A id \in Ids :
          /\ (id \in DOMAIN sandboxes /\ id \in DOMAIN sandboxes')
                => sandboxes'[id].created_at = sandboxes[id].created_at
          /\ (timer[id].state = "sleeping" /\ timer'[id].state = "sleeping")
                => timer'[id].due = timer[id].due
          /\ (timer[id].state = "sleeping" /\ timer'[id].state = "done"
                /\ id \in DOMAIN sandboxes)
                => now = sandboxes[id].created_at + AutoCloseDelay]_vars

\* C38: a list_sandboxes that runs while background closes remove ids never
\* fails, and the ids it returns were registered at some moment during the
\* call.
C38_ListWhileClosing ==
    reply.op = "list_sandboxes" => /\ reply.status = 200
                                   /\ reply.ids \subseteq reply.at_start

\* C39: when the expiry timer of a sandbox fires after the sandbox was
\* removed from the registry (by a close or by the sweep), the timer task
\* ends at its membership test: it invokes no shutdown, raises nothing and
\* leaves the registry, every session and every directory as they were.
C39_LateTimerIsNoOp ==
    [][(/\ loopTask.kind = "timer"
        /\ loopTask.pc = "check"
        /\ loopTask.id \in removed
        /\ loopTask' # loopTask)
       => /\ loopTask' = Idle
          /\ UNCHANGED <<sandboxes, kernel, work, venv, shutdowns, removed, errors>>]_vars

\* The timer of a sandbox that a close or the sweep removed has fired.
C39_Witness ==
    /\ loopTask.kind = "timer"
    /\ loopTask.pc = "check"
    /\ loopTask.id \in removed
    /\ shutdowns[loopTask.id] = 1

\* A pass of the sweep has raised, no pass is running, and sandbox id is the
\* first expired sandbox the registry still holds; the clock has a step left.
LeftByFailedPass(id) ==
    /\ \E y \in Ids : <<"sweep", y>> \in errors
    /\ loopTask.kind # "sweep"
    /\ expired_sandboxes # <<>>
    /\ id = Head(expired_sandboxes)
    /\ ticks < MaxTicks

\* C40: an error raised while a sweep pass closes an expired sandbox does not
\* end the sweep task: the expired sandbox such a pass left registered is
\* removed from the registry later on: by a later pass, or by the background
\* close that made that pass raise.
C40_SweepSurvivesErrors ==
    \A id \in Ids : LeftByFailedPass(id) ~> (id \notin DOMAIN sandboxes)

\* A pass raised on sandbox 1 and left sandbox 2, which was closed afterwards
\* while its timer was still asleep.
C40_Witness ==
    /\ <<"sweep", 1>> \in errors
    /\ 2 \in removed
    /\ shutdowns[2] = 1
    /\ 2 \notin closeAck
    /\ timer[2].state = "sleeping"
    /\ now >= ExpiryAge + 2 * SweepPeriod

=============================================================================
